---- MODULE Spec2Model ----
(***************************************************************************)
(* The tallying core of the e-voting backend (backend/app): the persisted   *)
(* tables of models/database.py, the process-wide encryption service of     *)
(* services/encryption.py and the three handlers of services/tallying.py.   *)
(*                                                                          *)
(* Every request runs in a database session of its own (get_db) against a   *)
(* shared PostgreSQL store at READ COMMITTED: each query of a handler sees   *)
(* the rows committed at that moment, the ORM keeps the objects it loaded,  *)
(* and db.commit() flushes the pending INSERTs and the UPDATEs of the        *)
(* attributes the handler changed, all or nothing.  A handler is therefore  *)
(* one action per query it issues plus one for its commit; the variables    *)
(* election .. next_id hold committed rows only.                            *)
(*                                                                          *)
(* Paillier ciphertexts are symbolic: a ciphertext vector is the key it was *)
(* produced under and the plaintexts it hides; a homomorphic addition       *)
(* carried out modulo another key's n^2 yields a garbled vector.            *)
(*                                                                          *)
(* The Shamir sharing of services/threshold_crypto.py is computed as the    *)
(* code computes it, over a field and a digest scaled from 256 bits to 3.   *)
(***************************************************************************)
EXTENDS Integers, Sequences, FiniteSets, TLC

\* ------------------------------------------------------------- bounds
MaxVotes == 2
\* reset_database is followed up to the MaxId-th identifier handed out.
MaxId == 6
\* reconstruct_secret is handed lists of up to MaxShares shares.
MaxShares == 3

\* ------------------------------------------------- program constants
Threshold == 3

\* -------------------------------------------------------- identifiers
ElectionIds == {"e1"}
UnknownElection == "e0"
ReqElections == ElectionIds \cup {UnknownElection}
\* Trustees holding a key share, one registered without a share, and an id
\* that names no trustee row.
ShareHolders == {"t1", "t2", "t3"}
NoShareTrustee == "t0"
TrusteeIds == ShareHolders \cup {NoShareTrustee}
\* Two more trustees hold a share; no request of the model names them.
SilentTrustees == {"t4", "t5"}
TrusteeRows == TrusteeIds \cup SilentTrustees
UnknownTrustee == "t9"
ReqTrustees == TrusteeIds \cup {UnknownTrustee}
NoTrustee == "-"
Reqs == {1, 2}
Times == {1, 2}
\* Statuses an election arrives with: the column default is "pending", and
\* start_tallying names "active" and "ended".
ElectionStatuses == {"active", "ended", "pending"}
NoKey == "nokey"
\* key_share_encrypted of a trustee that was issued no share.
NoShare == [none |-> TRUE]
Garbled == "garbled"
GarbageValues == {-1, 1}

VARIABLES election, votes, trustee, session, partials, results, audit,
          next_id, service, req

dbvars == <<election, votes, trustee, session, partials, results, audit, next_id>>
vars == <<election, votes, trustee, session, partials, results, audit,
          next_id, service, req>>

NoSession == [exists |-> FALSE]
NoResult == [exists |-> FALSE]
Idle == [pc |-> "idle"]
\* A response is returned before any other request takes a step: returning it
\* touches no shared state.
Responding == \E r \in Reqs : req[r].pc = "done"
\* A new request is served by the first idle worker.
Free(r) ==
    /\ req[r].pc = "idle"
    /\ ~Responding
    /\ \A q \in Reqs : q < r => req[q].pc # "idle"

\* ------------------------------------------------------ seeded faults
\* Faulty variants of the handlers' checks; the properties below tell each
\* of them from the check the code makes.
\* The duplicate lookup of partial_decrypt finding nothing.
ExistingPartials_Unchecked(e, t) == <<>>
\* start_tallying accepting an election that is already being tallied.
CanStartTally_Retry(status) == status \in {"active", "ended", "tallying"}
\* start_tallying without its lookup of an existing session.
TallyingStarted_Unchecked(e) == FALSE
\* finalize_tally demanding more than required_trustees.
InsufficientTrustees_Strict(loaded) ==
    loaded.completed_trustees <= loaded.required_trustees
\* partial_decrypt accepting a Completed session.
CanDecrypt_Closed(status) == status \in {"aggregating", "decrypting", "completed"}

\* aggregate_votes keeping the running aggregate instead of adding to it.
HomAdd_KeepFirst(pk, a, b) == a

\* An audit entry that does not name its operation.
AuditLog_Unnamed(e, operation_type, performed_by, details) ==
    [election_id |-> e, operation_type |-> "tally",
     performed_by |-> performed_by, details |-> details, status |-> "success"]

\* start_tallying without its test for an empty ballot list.
NoVotesToTally_Unchecked(encrypted_votes) == FALSE

\* tallying_sessions without the unique constraint on election_id.
SessionConflict_Unconstrained(e) == FALSE

\* start_tallying leaving the election's status as it found it.
ElectionStarted_StatusKept(row) == row

\* A session whose close keeps one of the request's pending writes.
Rollback_StatusKept(r) ==
    /\ election' = [election EXCEPT ![req[r].e].status = "tallying"]
    /\ UNCHANGED <<votes, trustee, session, partials, results, audit, next_id>>

\* ------------------------------------------------ encryption service
KeyOf(e) == e

\* encrypt_vote: one-hot vector, vote_vector[candidate_id - 1] = 1 with
\* Python's index rules (a negative index counts from the end).
EncryptVote(pk, candidate_id, num_candidates) ==
    LET idx == candidate_id - 1
        pos == IF idx >= 0 THEN idx + 1 ELSE num_candidates + idx + 1
    IN  IF pk = NoKey \/ pos < 1 \/ pos > num_candidates
        THEN [ok |-> FALSE]
        ELSE [ok |-> TRUE,
              ct |-> [key |-> pk,
                      vals |-> [i \in 1..num_candidates |-> IF i = pos THEN 1 ELSE 0]]]

\* EncryptedNumber.__add__ of two vectors deserialized under the service's
\* public key pk: the product modulo pk.n^2, elementwise over the length of
\* the running aggregate.
HomAdd(pk, a, b) ==
    IF a.key = pk /\ b.key = pk
    THEN [key |-> pk, vals |-> [i \in 1..Len(a.vals) |-> a.vals[i] + b.vals[i]]]
    ELSE [key |-> Garbled, vals |-> [i \in 1..Len(a.vals) |-> 0]]

RECURSIVE AggregateFrom(_, _, _)
AggregateFrom(pk, acc, rest) ==
    IF rest = <<>> THEN [ok |-> TRUE, ct |-> acc]
    ELSE IF Len(Head(rest).vals) < Len(acc.vals) THEN [ok |-> FALSE]
    ELSE AggregateFrom(pk, HomAdd(pk, acc, Head(rest)), Tail(rest))

aggregate_votes(pk, encrypted_votes) ==
    IF encrypted_votes = <<>> \/ pk = NoKey THEN [ok |-> FALSE]
    ELSE AggregateFrom(pk, Head(encrypted_votes), Tail(encrypted_votes))

\* decrypt_tally: the outcomes private_key.decrypt can have on each component.
decrypt_tally(svc, ct) ==
    IF svc.private_key = NoKey \/ svc.public_key = NoKey
       \/ svc.public_key # svc.private_key
    THEN {[ok |-> FALSE]}
    ELSE IF ct.key = svc.private_key
    THEN {[ok |-> TRUE, tally |-> ct.vals]}
    ELSE {[ok |-> FALSE]} \cup
         {[ok |-> TRUE, tally |-> g] : g \in [1..Len(ct.vals) -> GarbageValues]}

\* Seeded fault: a combination that weights the tally by the share index of
\* the last partial decryption it was handed.
combine_partial_decryptions_Weighted(svc, ct, partial_decryptions, threshold) ==
    IF Len(partial_decryptions) < threshold THEN {[ok |-> FALSE]}
    ELSE LET w == partial_decryptions[Len(partial_decryptions)].share_index
         IN  {IF out.ok
              THEN [ok |-> TRUE,
                    tally |-> [i \in DOMAIN out.tally |-> w * out.tally[i]]]
              ELSE out : out \in decrypt_tally(svc, ct)}

combine_partial_decryptions(svc, ct, partial_decryptions, threshold) ==
    IF Len(partial_decryptions) < threshold THEN {[ok |-> FALSE]}
    ELSE decrypt_tally(svc, ct)

encryption_partial_decrypt(svc, ct, share_index) ==
    IF svc.private_key = NoKey \/ svc.public_key = NoKey THEN [ok |-> FALSE]
    ELSE [ok |-> TRUE,
          partial |-> [share_index |-> share_index, partial_values |-> ct]]

\* ------------------------------------------- threshold_crypto service
\* total_trustees of the global threshold_crypto_service.
TotalTrustees == 5

\* SHA-256 and the field of _generate_large_prime, scaled from 256 bits to
\* three: digests range over 0..2^3 - 1 and the field prime is 7, below 2^3
\* as the code's 2^256 - 2^224 + 2^192 + 2^96 - 1 is below 2^256.
DigestValues == 0..7
Prime == 7

\* pow(b, e, m)
RECURSIVE PowMod(_, _, _)
PowMod(b, e, m) ==
    IF e = 0 THEN 1 % m ELSE (b * PowMod(b, e - 1, m)) % m

\* _evaluate_polynomial: the first n terms, reduced after every addition.
RECURSIVE EvaluateTerms(_, _, _, _)
EvaluateTerms(coefficients, x, prime, n) ==
    IF n = 0 THEN 0
    ELSE (EvaluateTerms(coefficients, x, prime, n - 1)
             + coefficients[n] * PowMod(x, n - 1, prime)) % prime

evaluate_polynomial(coefficients, x, prime) ==
    EvaluateTerms(coefficients, x, prime, Len(coefficients))

\* What secrets.randbelow(prime) can draw for the threshold - 1 coefficients.
CoefficientDraws == [1..(Threshold - 1) -> 0..(Prime - 1)]

\* split_secret on a secret whose SHA-256 value is secret_int, with the
\* coefficients drawn.  share_data is kept as the dictionary that the
\* base64/JSON text encodes (integers survive that text exactly).
split_secret(secret_int, drawn) ==
    LET coefficients == <<secret_int>> \o drawn
    IN  [i \in 1..TotalTrustees |->
            [share_id |-> i,
             share_data |-> [share_id |-> i, x |-> i,
                             y |-> evaluate_polynomial(coefficients, i, Prime),
                             threshold |-> Threshold,
                             total_trustees |-> TotalTrustees],
             trustee_index |-> i]]

\* _lagrange_interpolation: numerator and denominator of the i-th basis
\* polynomial over the first n points, the inverse by pow(d, prime - 2, prime).
RECURSIVE Numerator(_, _, _, _, _)
Numerator(points, i, x, prime, n) ==
    IF n = 0 THEN 1
    ELSE IF n = i THEN Numerator(points, i, x, prime, n - 1)
    ELSE (Numerator(points, i, x, prime, n - 1) * (x - points[n][1])) % prime

RECURSIVE Denominator(_, _, _, _)
Denominator(points, i, prime, n) ==
    IF n = 0 THEN 1
    ELSE IF n = i THEN Denominator(points, i, prime, n - 1)
    ELSE (Denominator(points, i, prime, n - 1)
             * (points[i][1] - points[n][1])) % prime

LagrangeBasis(points, i, x, prime) ==
    (Numerator(points, i, x, prime, Len(points))
        * PowMod(Denominator(points, i, prime, Len(points)), prime - 2, prime)) % prime

RECURSIVE InterpolateFrom(_, _, _, _)
InterpolateFrom(points, x, prime, n) ==
    IF n = 0 THEN 0
    ELSE (InterpolateFrom(points, x, prime, n - 1)
             + points[n][2] * LagrangeBasis(points, n, x, prime)) % prime

lagrange_interpolation(points, x, prime) ==
    InterpolateFrom(points, x, prime, Len(points))

\* secret_int.to_bytes(32, byteorder='big') in base64: the text of the value.
Encode32(secret_int) == [bytes32 |-> secret_int]

\* Seeded fault: reconstruct_secret without its test of the number of shares.
InsufficientShares_Unchecked(shares) == FALSE

\* len(shares) < self.threshold
InsufficientShares(shares) == Len(shares) < Threshold

\* reconstruct_secret: the points of shares[:threshold], interpolated at 0.
reconstruct_secret(shares) ==
    IF InsufficientShares(shares)
    THEN [ok |-> FALSE, raised |-> "Insufficient shares"]
    ELSE LET used == IF Len(shares) < Threshold THEN Len(shares) ELSE Threshold
             points == [i \in 1..used |->
                           <<shares[i].share_data.x, shares[i].share_data.y>>]
         IN  [ok |-> TRUE,
              secret_hash |-> Encode32(lagrange_interpolation(points, 0, Prime))]

\* verify_share on a share whose share_data decodes and has all five fields.
verify_share(share) ==
    LET share_data == share.share_data
    IN  IF share_data.threshold # Threshold
           \/ share_data.total_trustees # TotalTrustees
        THEN FALSE
        ELSE IF ~(1 <= share_data.share_id /\ share_data.share_id <= TotalTrustees)
        THEN FALSE
        ELSE TRUE

\* ----------------------------------------------------------- helpers
Untallied(vs) == SelectSeq(vs, LAMBDA v : ~v.is_tallied)
Ciphertexts(vs) == [i \in 1..Len(vs) |-> vs[i].encrypted_vote]

Done(r, code, detail, body) ==
    [pc |-> "done", op |-> req[r].op, e |-> req[r].e, t |-> req[r].t,
     code |-> code, detail |-> detail, body |-> body]

Reject(op, e, t, code, detail) ==
    [pc |-> "done", op |-> op, e |-> e, t |-> t,
     code |-> code, detail |-> detail, body |-> [none |-> TRUE]]

\* get_db: the request's session is closed when the handler raises, and the
\* transaction it had open is rolled back with every pending write.
Rollback(r) == UNCHANGED dbvars

AuditLog(e, operation_type, performed_by, details) ==
    [election_id |-> e, operation_type |-> operation_type,
     performed_by |-> performed_by, details |-> details, status |-> "success"]

\* ------------------------------------------------------ initial state
\* One of the ballot assignments generate_mock_votes can draw with
\* random.choices: ballot i is a vote for candidate 1 + (i - 1) mod k.
BallotChoice(i, k) == 1 + ((i - 1) % k)

Candidates == <<"A", "B">>

\* Trustee.id, the integer primary key: the five trustees of the database
\* initialization, then the one registered after them.
TrusteePk(t) ==
    CASE t = "t1" -> 1 [] t = "t2" -> 2 [] t = "t3" -> 3
      [] t = "t4" -> 4 [] t = "t5" -> 5 [] OTHER -> 6

\* The SHA-256 value of a private key's text, on the scale of DigestValues.
KeyDigest(key) ==
    CASE key = "e1" -> 3 [] key = "kt" -> 6 [] OTHER -> 5

\* The coefficients the split behind the initial shares had drawn.
InitDraw == <<1, 2>>

\* The trustee rows after setup_test_trustees on the election's key pair,
\* and one trustee registered since, still without a share.
InitialTrustees ==
    LET shares == split_secret(KeyDigest(KeyOf("e1")), InitDraw)
    IN  [t \in TrusteeRows |->
            IF TrusteePk(t) <= TotalTrustees
            THEN [id |-> TrusteePk(t), public_key |-> KeyOf("e1"),
                  key_share_encrypted |-> shares[TrusteePk(t)].share_data,
                  status |-> "active"]
            ELSE [id |-> TrusteePk(t), public_key |-> NoKey,
                  key_share_encrypted |-> NoShare, status |-> "active"]]

Init ==
    /\ election \in [ElectionIds -> [status : ElectionStatuses,
                                     candidates : {Candidates},
                                     encryption_params : {KeyOf("e1")}]]
    /\ \E n \in {0, MaxVotes} :
         votes = [e \in ElectionIds |->
                    [i \in 1..n |->
                       [encrypted_vote |->
                            EncryptVote(election[e].encryption_params,
                                        BallotChoice(i, Len(Candidates)),
                                        Len(Candidates)).ct,
                        is_tallied |-> FALSE]]]
    /\ trustee = InitialTrustees
    /\ session = [e \in ElectionIds |-> NoSession]
    /\ partials = <<>>
    /\ results = [e \in ElectionIds |-> NoResult]
    /\ audit = <<>>
    /\ next_id = 1
    /\ service = [public_key |-> KeyOf("e1"), private_key |-> NoKey]
    /\ req = [r \in Reqs |-> Idle]

\* ----------------------------------------------------- start_tallying
\* election.status in ["active", "ended"]
CanStartTally(status) == status \in {"active", "ended"}

\* existing_session: the election already has a tallying session row.
TallyingStarted(e) == session[e].exists

StartElection(r, e) ==
    /\ Free(r)
    /\ req' = [req EXCEPT ![r] =
         IF e \notin ElectionIds
         THEN Reject("start", e, NoTrustee, 400, "Election not found")
         ELSE IF ~CanStartTally(election[e].status)
         THEN Reject("start", e, NoTrustee, 400, "Cannot tally election with status")
         ELSE [pc |-> "s2", op |-> "start", e |-> e, t |-> NoTrustee,
               election_status |-> election[e].status]]
    /\ UNCHANGED <<dbvars, service>>

\* not encrypted_votes
NoVotesToTally(encrypted_votes) == encrypted_votes = <<>>

StartAggregate(r) ==
    /\ req[r].pc = "s2" /\ ~Responding
    /\ LET encrypted_votes == Untallied(votes[req[r].e])
           agg == aggregate_votes(service.public_key, Ciphertexts(encrypted_votes))
       IN  req' = [req EXCEPT ![r] =
             IF TallyingStarted(req[r].e)
             THEN Done(r, 400, "Tallying session already exists", [none |-> TRUE])
             ELSE IF NoVotesToTally(encrypted_votes)
             THEN Done(r, 400, "No votes to tally", [none |-> TRUE])
             ELSE IF ~agg.ok
             THEN Done(r, 400, "Aggregation failed", [none |-> TRUE])
             ELSE [pc |-> "s3", op |-> "start", e |-> req[r].e, t |-> NoTrustee,
                   election_status |-> req[r].election_status,
                   aggregated_ciphertext |-> agg.ct,
                   total_votes |-> Len(encrypted_votes)]]
    /\ UNCHANGED <<dbvars, service>>

\* TallyingSession(...) as start_tallying constructs it.
NewSession(id, e, aggregated_ciphertext) ==
    [exists |-> TRUE, session_id |-> id, election_id |-> e,
     status |-> "aggregating",
     aggregated_ciphertext |-> aggregated_ciphertext,
     required_trustees |-> Threshold, completed_trustees |-> 0]

\* The unique constraint on tallying_sessions.election_id refusing the INSERT.
SessionConflict(e) == session[e].exists

\* election.status = "tallying"
ElectionStarted(row) == [row EXCEPT !.status = "tallying"]

StartCommit(r) ==
    /\ req[r].pc = "s3" /\ ~Responding
    /\ LET e == req[r].e
       IN  IF SessionConflict(e)
           THEN /\ req' = [req EXCEPT ![r] = Done(r, 500, "IntegrityError", [none |-> TRUE])]
                /\ Rollback(r)
                /\ UNCHANGED service
           ELSE /\ session' = [session EXCEPT ![e] =
                      NewSession(next_id, e, req[r].aggregated_ciphertext)]
                /\ election' = [election EXCEPT ![e] = ElectionStarted(@)]
                /\ audit' = Append(audit,
                      AuditLog(e, "start_tally", "system",
                               [total_votes |-> req[r].total_votes,
                                session_id |-> "None"]))
                /\ next_id' = next_id + 1
                /\ req' = [req EXCEPT ![r] = Done(r, 200, "ok",
                      [session_id |-> next_id, status |-> "aggregating",
                       total_votes |-> req[r].total_votes,
                       required_trustees |-> Threshold])]
                /\ UNCHANGED <<votes, trustee, partials, results, service>>

\* ---------------------------------------------------- partial_decrypt
ExistingPartials(e, t) ==
    SelectSeq(partials, LAMBDA p : p.election_id = e /\ p.trustee_id = t)

\* session.status in ["aggregating", "decrypting"]
CanDecrypt(status) == status \in {"aggregating", "decrypting"}

\* Seeded fault: partial_decrypt going on without a session row, with an
\* empty session object in its place.
PartialSession_Unchecked(r, e, t) ==
    /\ Free(r)
    /\ req' = [req EXCEPT ![r] =
         [pc |-> "p2", op |-> "partial", e |-> e, t |-> t,
          session |-> IF e \in ElectionIds /\ session[e].exists
                      THEN session[e]
                      ELSE NewSession(0, e, [key |-> NoKey, vals |-> <<>>])]]
    /\ UNCHANGED <<dbvars, service>>

PartialSession(r, e, t) ==
    /\ Free(r)
    /\ req' = [req EXCEPT ![r] =
         IF e \notin ElectionIds \/ ~session[e].exists
         THEN Reject("partial", e, t, 400, "Tallying session not found")
         ELSE IF ~CanDecrypt(session[e].status)
         THEN Reject("partial", e, t, 400, "Cannot decrypt in status")
         ELSE [pc |-> "p2", op |-> "partial", e |-> e, t |-> t,
               session |-> session[e]]]
    /\ UNCHANGED <<dbvars, service>>

\* load_private_key(election.encryption_params["private_key"]) when present.
LoadElectionKey(svc, e) ==
    IF election[e].encryption_params # NoKey
    THEN [svc EXCEPT !.private_key = election[e].encryption_params]
    ELSE svc

PartialCompute(r) ==
    /\ req[r].pc = "p2" /\ ~Responding
    /\ LET e == req[r].e
           t == req[r].t
           existing == ExistingPartials(e, t)
           known == t \in TrusteeRows /\ trustee[t].key_share_encrypted # NoShare
           svc == LoadElectionKey(service, e)
           pd == encryption_partial_decrypt(svc,
                     req[r].session.aggregated_ciphertext,
                     req[r].session.completed_trustees + 1)
       IN  IF existing # <<>>
           THEN /\ req' = [req EXCEPT ![r] =
                      Done(r, 400, "Trustee already performed partial decryption",
                           [none |-> TRUE])]
                /\ UNCHANGED service
           ELSE IF ~known
           THEN /\ req' = [req EXCEPT ![r] =
                      Done(r, 400, "Trustee not found or missing key share",
                           [none |-> TRUE])]
                /\ UNCHANGED service
           ELSE /\ service' = svc
                /\ req' = [req EXCEPT ![r] =
                      IF ~pd.ok
                      THEN Done(r, 400, "Private key not loaded", [none |-> TRUE])
                      ELSE [pc |-> "p3", op |-> "partial", e |-> e, t |-> t,
                            session |-> req[r].session,
                            partial_result |-> pd.partial]]
    /\ UNCHANGED dbvars

\* Seeded fault: partial_decrypt lowering required_trustees to the count it
\* has reached.
PartialSessionUpdate_Requirement(row, loaded) ==
    [row EXCEPT !.completed_trustees = loaded.completed_trustees + 1,
                !.status = IF loaded.status = "aggregating" THEN "decrypting" ELSE @,
                !.required_trustees = loaded.completed_trustees + 1]

\* The UPDATE the ORM flushes for the session object partial_decrypt loaded:
\* completed_trustees from the loaded value, status only when it was loaded
\* as "aggregating".
PartialSessionUpdate(row, loaded) ==
    [row EXCEPT !.completed_trustees = loaded.completed_trustees + 1,
                !.status = IF loaded.status = "aggregating" THEN "decrypting" ELSE @]

PartialCommit(r) ==
    /\ req[r].pc = "p3" /\ ~Responding
    /\ LET e == req[r].e
           t == req[r].t
           count == req[r].session.completed_trustees + 1
       IN  IF ~session[e].exists
           THEN /\ req' = [req EXCEPT ![r] = Done(r, 500, "StaleDataError", [none |-> TRUE])]
                /\ Rollback(r)
                /\ UNCHANGED service
           ELSE /\ partials' = Append(partials,
                      [decryption_id |-> next_id, election_id |-> e,
                       trustee_id |-> t,
                       partial_result |-> req[r].partial_result,
                       verified |-> TRUE])
                /\ session' = [session EXCEPT ![e] =
                      PartialSessionUpdate(@, req[r].session)]
                /\ audit' = Append(audit,
                      AuditLog(e, "partial_decrypt", t,
                               [session_id |-> req[r].session.session_id,
                                trustee_count |-> count]))
                /\ next_id' = next_id + 1
                /\ req' = [req EXCEPT ![r] = Done(r, 200, "ok",
                      [decryption_id |-> next_id,
                       completed_trustees |-> count,
                       required_trustees |-> req[r].session.required_trustees,
                       can_finalize |-> count >= req[r].session.required_trustees])]
                /\ UNCHANGED <<election, votes, trustee, results, service>>

\* ----------------------------------------------------- finalize_tally
VerifiedPartials(e) ==
    SelectSeq(partials, LAMBDA p : p.election_id = e /\ p.verified)

\* session.completed_trustees < session.required_trustees
InsufficientTrustees(loaded) == loaded.completed_trustees < loaded.required_trustees

FinalizeSession(r, e) ==
    /\ Free(r)
    /\ req' = [req EXCEPT ![r] =
         IF e \notin ElectionIds \/ ~session[e].exists
         THEN Reject("finalize", e, NoTrustee, 400, "Tallying session not found")
         ELSE IF InsufficientTrustees(session[e])
         THEN Reject("finalize", e, NoTrustee, 400, "Insufficient trustees")
         ELSE [pc |-> "f2", op |-> "finalize", e |-> e, t |-> NoTrustee,
               session |-> session[e]]]
    /\ UNCHANGED <<dbvars, service>>

\* The loop over enumerate(candidates): a later candidate of the same name
\* overwrites the entry, total_votes adds every position.
VoteCount(final_tally_array, i) ==
    IF i <= Len(final_tally_array) THEN final_tally_array[i] ELSE 0

FinalTally(candidates, final_tally_array) ==
    [name \in {candidates[i] : i \in DOMAIN candidates} |->
        VoteCount(final_tally_array,
                  CHOOSE i \in DOMAIN candidates :
                      /\ candidates[i] = name
                      /\ \A j \in DOMAIN candidates : candidates[j] = name => j <= i)]

RECURSIVE TotalVotes(_, _)
TotalVotes(final_tally_array, n) ==
    IF n = 0 THEN 0
    ELSE TotalVotes(final_tally_array, n - 1) + VoteCount(final_tally_array, n)

\* _generate_verification_hash: SHA-256 of the sorted-key JSON of these four
\* fields, modelled as the tuple of its inputs.
VerificationHash(e, final_tally, total_votes, timestamp) ==
    [election_id |-> e, final_tally |-> final_tally,
     total_votes |-> total_votes, timestamp |-> timestamp]

FinalizeCombine(r) ==
    /\ req[r].pc = "f2" /\ ~Responding
    /\ LET e == req[r].e
           partial_decs == VerifiedPartials(e)
           loaded == req[r].session
           candidates == election[e].candidates
       IN  IF Len(partial_decs) < loaded.required_trustees
           THEN req' = [req EXCEPT ![r] =
                   Done(r, 400, "Insufficient verified partial decryptions",
                        [none |-> TRUE])]
           ELSE \E out \in combine_partial_decryptions(service,
                               loaded.aggregated_ciphertext,
                               [i \in 1..Len(partial_decs) |->
                                   partial_decs[i].partial_result],
                               loaded.required_trustees),
                   now \in Times :
                  req' = [req EXCEPT ![r] =
                     IF ~out.ok
                     THEN Done(r, 400, "Finalization failed", [none |-> TRUE])
                     ELSE LET final_tally == FinalTally(candidates, out.tally)
                              total_votes == TotalVotes(out.tally, Len(candidates))
                          IN  [pc |-> "f3", op |-> "finalize", e |-> e, t |-> NoTrustee,
                               session |-> loaded,
                               election_status |-> election[e].status,
                               final_tally |-> final_tally,
                               total_votes |-> total_votes,
                               verification_hash |->
                                   VerificationHash(e, final_tally, total_votes, now)]]
    /\ UNCHANGED <<dbvars, service>>

FinalizeCommit(r) ==
    /\ req[r].pc = "f3" /\ ~Responding
    /\ LET e == req[r].e
       IN  IF results[e].exists
           THEN /\ req' = [req EXCEPT ![r] = Done(r, 500, "IntegrityError", [none |-> TRUE])]
                /\ Rollback(r)
                /\ UNCHANGED service
           ELSE IF ~session[e].exists
           THEN /\ req' = [req EXCEPT ![r] = Done(r, 500, "StaleDataError", [none |-> TRUE])]
                /\ Rollback(r)
                /\ UNCHANGED service
           ELSE \E created_at \in {c \in Times : c >= req[r].verification_hash.timestamp} :
                /\ results' = [results EXCEPT ![e] =
                      [exists |-> TRUE, result_id |-> next_id, election_id |-> e,
                       final_tally |-> req[r].final_tally,
                       total_votes_tallied |-> req[r].total_votes,
                       verification_hash |-> req[r].verification_hash,
                       is_verified |-> TRUE, created_at |-> created_at]]
                /\ session' = [session EXCEPT ![e].status =
                      IF req[r].session.status # "completed" THEN "completed" ELSE @]
                /\ election' = [election EXCEPT ![e].status =
                      IF req[r].election_status # "completed" THEN "completed" ELSE @]
                /\ votes' = [votes EXCEPT ![e] =
                      [i \in 1..Len(@) |-> [@[i] EXCEPT !.is_tallied = TRUE]]]
                /\ audit' = Append(audit,
                      AuditLog(e, "finalize_tally", "system",
                               [final_tally |-> req[r].final_tally,
                                total_votes |-> req[r].total_votes,
                                verification_hash |-> req[r].verification_hash]))
                /\ next_id' = next_id + 1
                /\ req' = [req EXCEPT ![r] = Done(r, 200, "ok",
                      [result_id |-> next_id,
                       final_tally |-> req[r].final_tally,
                       total_votes_tallied |-> req[r].total_votes,
                       verification_hash |-> req[r].verification_hash])]
                /\ UNCHANGED <<trustee, partials, service>>

\* The router returns the response; get_db closes the request's db session.
Respond(r) ==
    /\ req[r].pc = "done"
    /\ req' = [req EXCEPT ![r] = Idle]
    /\ UNCHANGED <<dbvars, service>>

Next ==
    \E r \in Reqs :
        \/ \E e \in ReqElections : StartElection(r, e)
        \/ StartAggregate(r)
        \/ StartCommit(r)
        \/ \E e \in ElectionIds, t \in ReqTrustees : PartialSession(r, e, t)
        \/ PartialCompute(r)
        \/ PartialCommit(r)
        \/ \E e \in ElectionIds : FinalizeSession(r, e)
        \/ FinalizeCombine(r)
        \/ FinalizeCommit(r)
        \/ Respond(r)

Spec == Init /\ [][Next]_vars

\* =====================================================================
\* The other operations the service exposes, one request at a time
\* =====================================================================
\* The key pairs generate_keypair draws: they differ from every election's.
FreshKeys == {"kt", "ku"}

\* verify_results: the digest recomputed from the stored row, with the row's
\* created_at in place of the time the stored digest was computed at.
ComputedHash(result) ==
    VerificationHash(result.election_id, result.final_tally,
                     result.total_votes_tallied, result.created_at)

VerifyResults(r, e) ==
    /\ Free(r)
    /\ req' = [req EXCEPT ![r] =
         IF e \notin ElectionIds \/ ~results[e].exists
         THEN Reject("verify", e, NoTrustee, 404, "Results not found")
         ELSE [pc |-> "done", op |-> "verify", e |-> e, t |-> NoTrustee,
               code |-> 200, detail |-> "ok",
               body |-> [is_valid |->
                            ComputedHash(results[e]) = results[e].verification_hash,
                         verification_hash |-> results[e].verification_hash]]]
    /\ UNCHANGED <<dbvars, service>>

\* reset_database(confirm=true): every table but trustees and elections is
\* emptied and every election is set back to "active".
ResetDatabase(r) ==
    /\ Free(r)
    /\ next_id <= MaxId
    /\ audit' = <<>>
    /\ results' = [e \in ElectionIds |-> NoResult]
    /\ partials' = <<>>
    /\ votes' = [e \in ElectionIds |-> <<>>]
    /\ session' = [e \in ElectionIds |-> NoSession]
    /\ election' = [e \in ElectionIds |-> [election[e] EXCEPT !.status = "active"]]
    /\ req' = [req EXCEPT ![r] =
         [pc |-> "done", op |-> "reset", e |-> UnknownElection, t |-> NoTrustee,
          code |-> 200, detail |-> "ok", body |-> [success |-> TRUE]]]
    /\ UNCHANGED <<trustee, next_id, service>>

\* delete_trustee: the row is kept and marked inactive.
DeleteTrustee(r, t) ==
    /\ Free(r)
    /\ IF t \notin TrusteeRows
       THEN /\ req' = [req EXCEPT ![r] =
                  Reject("delete_trustee", UnknownElection, t, 404, "Trustee not found")]
            /\ UNCHANGED trustee
       ELSE /\ trustee' = [trustee EXCEPT ![t].status = "inactive"]
            /\ req' = [req EXCEPT ![r] =
                  [pc |-> "done", op |-> "delete_trustee", e |-> UnknownElection,
                   t |-> t, code |-> 200, detail |-> "ok",
                   body |-> [success |-> TRUE]]]
    /\ UNCHANGED <<election, votes, session, partials, results, audit, next_id,
                   service>>

\* The keys found anywhere in the process or the database; the pair that
\* generate_keypair draws is none of them.
KeysInUse ==
    {service.public_key, service.private_key}
        \cup {election[e].encryption_params : e \in ElectionIds}
        \cup {trustee[t].public_key : t \in TrusteeRows}

\* The share of the split meant for the trustee of the given primary key:
\* the one whose trustee_index equals it, else shares[0].
ShareFor(shares, id) ==
    IF \E i \in DOMAIN shares : shares[i].trustee_index = id
    THEN shares[CHOOSE i \in DOMAIN shares : shares[i].trustee_index = id].share_data
    ELSE shares[1].share_data

\* generate_key_share: generate_keypair replaces both keys of the shared
\* encryption service (drawn.key), the new private key is split with fresh
\* coefficients (drawn.coefficients) and the trustee row gets the new public
\* key and its share.
GenerateKeyShare(r, t, drawn) ==
    /\ Free(r)
    /\ IF t \notin TrusteeRows
       THEN /\ req' = [req EXCEPT ![r] =
                  Reject("key_share", UnknownElection, t, 404, "Trustee not found")]
            /\ UNCHANGED <<trustee, service>>
       ELSE /\ drawn.key \notin KeysInUse
            /\ service' = [public_key |-> drawn.key, private_key |-> drawn.key]
            /\ trustee' = [trustee EXCEPT
                  ![t].public_key = drawn.key,
                  ![t].key_share_encrypted =
                      ShareFor(split_secret(KeyDigest(drawn.key), drawn.coefficients),
                               trustee[t].id)]
            /\ req' = [req EXCEPT ![r] =
                  [pc |-> "done", op |-> "key_share", e |-> UnknownElection,
                   t |-> t, code |-> 200, detail |-> "ok",
                   body |-> [public_key |-> drawn.key]]]
    /\ UNCHANGED <<election, votes, session, partials, results, audit, next_id>>

\* setup_test_trustees: the first election's key pair (generated when the
\* election has none) is split once and each of the first five trustees gets
\* the share of its primary key.
FirstFive ==
    {t \in TrusteeRows :
        Cardinality({u \in TrusteeRows : trustee[u].id < trustee[t].id}) < 5}

SetupTestTrustees(r, drawn) ==
    /\ Free(r)
    /\ LET e == CHOOSE x \in ElectionIds : TRUE
           generated == election[e].encryption_params = NoKey
           key == IF generated THEN drawn.key ELSE election[e].encryption_params
           shares == split_secret(KeyDigest(key), drawn.coefficients)
       IN  IF Cardinality(TrusteeRows) < 5
           THEN /\ req' = [req EXCEPT ![r] =
                      [pc |-> "done", op |-> "setup_trustees", e |-> e,
                       t |-> NoTrustee, code |-> 200, detail |-> "ok",
                       body |-> [success |-> FALSE]]]
                /\ UNCHANGED <<election, trustee, service>>
           ELSE /\ generated => drawn.key \notin KeysInUse
                /\ service' = IF generated
                              THEN [public_key |-> key, private_key |-> key]
                              ELSE service
                /\ election' = [election EXCEPT ![e].encryption_params = key]
                /\ trustee' = [t \in TrusteeRows |->
                      IF t \in FirstFive
                         /\ \E i \in DOMAIN shares :
                               shares[i].trustee_index = trustee[t].id
                      THEN [trustee[t] EXCEPT
                              !.public_key = key,
                              !.key_share_encrypted =
                                  ShareFor(shares, trustee[t].id)]
                      ELSE trustee[t]]
                /\ req' = [req EXCEPT ![r] =
                      [pc |-> "done", op |-> "setup_trustees", e |-> e,
                       t |-> NoTrustee, code |-> 200, detail |-> "ok",
                       body |-> [success |-> TRUE]]]
    /\ UNCHANGED <<votes, session, partials, results, audit, next_id>>

\* generate_mock_votes(count, election_id): loads the election's public key
\* into the shared service and stores count ballots encrypted with it.
BallotBatches(k, room) == UNION {[1..n -> 1..k] : n \in 1..room}

EncryptBallots(pk, choices, k) ==
    [i \in 1..Len(choices) |->
        [encrypted_vote |-> EncryptVote(pk, choices[i], k).ct,
         is_tallied |-> FALSE]]

GenerateMockVotes(r, e) ==
    /\ Free(r)
    /\ Len(votes[e]) < MaxVotes
    /\ LET k == Len(election[e].candidates)
           pk == election[e].encryption_params
       IN  \E choices \in BallotBatches(k, MaxVotes - Len(votes[e])) :
              /\ service' = [service EXCEPT !.public_key = pk]
              /\ votes' = [votes EXCEPT ![e] = @ \o EncryptBallots(pk, choices, k)]
              /\ req' = [req EXCEPT ![r] =
                    [pc |-> "done", op |-> "mock_votes", e |-> e, t |-> NoTrustee,
                     code |-> 200, detail |-> "ok",
                     body |-> [votes_generated |-> Len(choices)]]]
    /\ UNCHANGED <<election, trustee, session, partials, results, audit, next_id>>

\* Candidate lists of the election row: distinct names, a repeated display
\* name, three candidates.
CandidateLists == {<<"A", "B">>, <<"A", "A">>, <<"A", "B", "C">>}

\* An election with one of the candidate lists, whose ballots, any one-hot
\* choices, were generated by this process or by one that has since been
\* restarted (svc).
InitData(svc, lists) ==
    /\ election \in [ElectionIds -> [status : {"active"},
                                     candidates : lists,
                                     encryption_params : {KeyOf("e1")}]]
    /\ \E choices \in {<<>>} \cup BallotBatches(3, MaxVotes) :
         /\ \A e \in ElectionIds, i \in DOMAIN choices :
               choices[i] <= Len(election[e].candidates)
         /\ votes = [e \in ElectionIds |->
                       EncryptBallots(election[e].encryption_params, choices,
                                      Len(election[e].candidates))]
    /\ trustee = InitialTrustees
    /\ session = [e \in ElectionIds |-> NoSession]
    /\ partials = <<>>
    /\ results = [e \in ElectionIds |-> NoResult]
    /\ audit = <<>>
    /\ next_id = 1
    /\ service = svc
    /\ req = [r \in Reqs |-> Idle]

LoadedService == [public_key |-> KeyOf("e1"), private_key |-> NoKey]
FreshService == [public_key |-> NoKey, private_key |-> NoKey]

\* The worker of a deployment that serves one request at a time.
SingleWorker == {1}

\* start_tallying, partial_decrypt, finalize_tally and verify_results, one
\* request at a time, over any ballots.
InitTally == InitData(LoadedService, CandidateLists)

NextTally ==
    \E r \in SingleWorker :
        \/ \E e \in ReqElections : StartElection(r, e)
        \/ StartAggregate(r)
        \/ StartCommit(r)
        \/ \E e \in ElectionIds, t \in ReqTrustees : PartialSession(r, e, t)
        \/ PartialCompute(r)
        \/ PartialCommit(r)
        \/ \E e \in ElectionIds : FinalizeSession(r, e)
        \/ FinalizeCombine(r)
        \/ FinalizeCommit(r)
        \/ \E e \in ReqElections : VerifyResults(r, e)
        \/ Respond(r)

SpecTally == InitTally /\ [][NextTally]_vars

\* The trustees the management requests name.
ManagedTrustees == {"t1", UnknownTrustee}

\* Every operation, one request at a time.
InitOps == \E svc \in {LoadedService, FreshService} : InitData(svc, {Candidates})

NextOps ==
    \/ NextTally
    \/ \E r \in SingleWorker :
        \/ ResetDatabase(r)
        \/ \E t \in ManagedTrustees : DeleteTrustee(r, t)
        \/ \E t \in ManagedTrustees, key \in FreshKeys :
              GenerateKeyShare(r, t, [key |-> key, coefficients |-> InitDraw])
        \/ \E e \in ElectionIds : GenerateMockVotes(r, e)

SpecOps == InitOps /\ [][NextOps]_vars

\* Key issuance alone: generate_key_share for a trustee of the database
\* initialization, for the one registered later and for an unknown id, and
\* setup_test_trustees, with either key pair and three of the coefficient
\* draws.
IssuedTrustees == {"t1", NoShareTrustee, UnknownTrustee}
IssuanceDraws == [key : FreshKeys, coefficients : {InitDraw, <<0, 0>>, <<3, 5>>}]

InitKeys == InitData(LoadedService, {Candidates}) /\ votes = [e \in ElectionIds |-> <<>>]

NextKeys ==
    \E r \in SingleWorker :
        \/ \E t \in IssuedTrustees, drawn \in IssuanceDraws :
              GenerateKeyShare(r, t, drawn)
        \/ \E drawn \in IssuanceDraws : SetupTestTrustees(r, drawn)
        \/ Respond(r)

SpecKeys == InitKeys /\ [][NextKeys]_vars

\* =====================================================================
\* Direct calls of the two services
\* =====================================================================
\* A caller of split_secret holds the shares it was given.
SplitSecret(r) ==
    /\ Free(r)
    /\ \E secret_int \in DigestValues, drawn \in CoefficientDraws :
          req' = [req EXCEPT ![r] =
             [pc |-> "shares", op |-> "split", secret_int |-> secret_int,
              shares |-> split_secret(secret_int, drawn)]]
    /\ UNCHANGED <<dbvars, service>>

\* The lists of up to MaxShares of the shares held, in any order, a share
\* possibly more than once.
ShareLists(shares) ==
    UNION {[1..n -> {shares[i] : i \in DOMAIN shares}] : n \in 0..MaxShares}

ReconstructSecret(r) ==
    /\ req[r].pc = "shares"
    /\ \E supplied \in ShareLists(req[r].shares) :
          req' = [req EXCEPT ![r] =
             [pc |-> "done", op |-> "reconstruct",
              secret_int |-> req[r].secret_int, supplied |-> supplied,
              body |-> reconstruct_secret(supplied)]]
    /\ UNCHANGED <<dbvars, service>>

\* Shares as a caller can present them to verify_share: genuine ones and
\* ones whose fields were changed.
PresentedShares ==
    {[share_id |-> d.share_id, share_data |-> d, trustee_index |-> d.share_id] :
        d \in [share_id : {0, 1, TotalTrustees, TotalTrustees + 1},
               x : {0, 1, TotalTrustees, TotalTrustees + 1},
               y : {0, Prime - 1, Prime},
               threshold : {Threshold - 1, Threshold},
               total_trustees : {TotalTrustees, TotalTrustees + 1}]}

VerifyShare(r) ==
    /\ Free(r)
    /\ \E share \in PresentedShares :
          req' = [req EXCEPT ![r] =
             [pc |-> "done", op |-> "verify_share", share |-> share,
              body |-> verify_share(share)]]
    /\ UNCHANGED <<dbvars, service>>

\* encrypt_vote called with any candidate_id, in range or not.
CandidateArgs == -1..4
CandidateCounts == 1..3

EncryptVoteCall(r) ==
    /\ Free(r)
    /\ \E candidate_id \in CandidateArgs, num_candidates \in CandidateCounts :
          req' = [req EXCEPT ![r] =
             [pc |-> "done", op |-> "encrypt_vote",
              candidate_id |-> candidate_id, num_candidates |-> num_candidates,
              body |-> EncryptVote(service.public_key, candidate_id,
                                   num_candidates)]]
    /\ UNCHANGED <<dbvars, service>>

InitServices == InitData(LoadedService, {Candidates}) /\ votes = [e \in ElectionIds |-> <<>>]

NextServices ==
    \E r \in SingleWorker :
        \/ SplitSecret(r)
        \/ ReconstructSecret(r)
        \/ VerifyShare(r)
        \/ EncryptVoteCall(r)
        \/ Respond(r)

SpecServices == InitServices /\ [][NextServices]_vars

\* ----------------------------------------------------------- scheduling
\* The server runs every handler it has entered to its response, and a
\* client that keeps sending start_tallying, partial_decrypt (one client per
\* share-holding trustee) or finalize_tally for the election is served again
\* and again whenever a worker is free.
HandlerFairness(r) ==
    /\ WF_vars(StartAggregate(r))
    /\ WF_vars(StartCommit(r))
    /\ WF_vars(PartialCompute(r))
    /\ WF_vars(PartialCommit(r))
    /\ WF_vars(FinalizeCombine(r))
    /\ WF_vars(FinalizeCommit(r))
    /\ WF_vars(Respond(r))

ClientFairness(r) ==
    \A e \in ElectionIds :
        /\ SF_vars(StartElection(r, e))
        /\ \A t \in ShareHolders : SF_vars(PartialSession(r, e, t))
        /\ SF_vars(FinalizeSession(r, e))

\* The tallying handlers served one request at a time, in a process that has
\* or has not loaded the election's key, under the scheduling above.
SpecLive ==
    /\ InitOps
    /\ [][NextTally]_vars
    /\ \A r \in SingleWorker : HandlerFairness(r) /\ ClientFairness(r)

\* =====================================================================
\* Properties
\* =====================================================================
\* Steps of request slot r, as seen in a transition.
StepBy(r) == req'[r] # req[r]
Begins(r, op) == req[r].pc = "idle" /\ req'[r].pc # "idle" /\ req'[r].op = op
HandlerStep(r, op) == StepBy(r) /\ req'[r].pc # "idle" /\ req'[r].op = op
Finished(r, op) == req[r].pc = "done" /\ req[r].op = op

StatusRank(status) ==
    CASE status = "aggregating" -> 1
      [] status = "decrypting" -> 2
      [] status = "completed" -> 3
      [] OTHER -> 0

PartialsOf(e) == SelectSeq(partials, LAMBDA p : p.election_id = e)
RecordedFor(e, t) ==
    \E i \in DOMAIN partials :
        partials[i].election_id = e /\ partials[i].trustee_id = t
AuditCount(e, operation_type) ==
    Cardinality({i \in DOMAIN audit :
        audit[i].election_id = e /\ audit[i].operation_type = operation_type})

\* C1: across every step of start_tallying, partial_decrypt and
\* finalize_tally on one election, overlapping requests included, the
\* session's completed_trustees never decreases and its status never moves
\* backwards in the order Aggregating < Decrypting < Completed.
C1_SessionMonotone ==
    [][\A e \in ElectionIds :
          session[e].exists =>
              /\ session'[e].exists
              /\ session'[e].completed_trustees >= session[e].completed_trustees
              /\ StatusRank(session'[e].status) >= StatusRank(session[e].status)]_vars

\* C2: in every reachable state the session's completed_trustees equals the
\* number of PartialDecryption records stored for its election.
C2_CounterMatchesRecords ==
    \A e \in ElectionIds :
        session[e].exists => session[e].completed_trustees = Len(PartialsOf(e))

\* C3: for every (election, trustee) pair at most one PartialDecryption
\* record exists, also when two requests for the same pair overlap.
C3_OneRecordPerTrustee ==
    \A e \in ElectionIds, t \in ReqTrustees : Len(ExistingPartials(e, t)) <= 1
C5_ReplayReturnsResult ==
    \A r \in Reqs :
        (Finished(r, "finalize") /\ req[r].e \in ElectionIds
            /\ results[req[r].e].exists) =>
            /\ req[r].code = 200
            /\ req[r].body.result_id = results[req[r].e].result_id
            /\ req[r].body.final_tally = results[req[r].e].final_tally
            /\ req[r].body.total_votes_tallied = results[req[r].e].total_votes_tallied
            /\ req[r].body.verification_hash = results[req[r].e].verification_hash
C7_StartOnExistingSessionFails ==
    [][\A r \in Reqs :
          (HandlerStep(r, "start") /\ req'[r].e \in ElectionIds
              /\ session[req'[r].e].exists) =>
              /\ req'[r].pc = "done"
              /\ req'[r].code \in {400, 500}
              /\ UNCHANGED dbvars]_vars

\* C7 witness: a start_tallying that had passed the election check was
\* answered "Tallying session already exists" by the session lookup.
C7_SessionExistsSeen ==
    \E r \in Reqs :
        /\ Finished(r, "start")
        /\ req[r].detail = "Tallying session already exists"
        /\ session[req[r].e].exists
\* C8: a step of finalize_tally on a session whose election has fewer than
\* required_trustees accepted partial decryptions fails the request with an
\* insufficiency error, stores no result and leaves the session's status and
\* counter as they were; once completed_trustees has reached
\* required_trustees through that many trustees' records, finalize_tally is
\* let through by both checks, and its commit on an election without a result
\* succeeds: the result is stored and the session is Completed.
C8_FinalizeNeedsThreshold ==
    [][\A r \in Reqs :
          (HandlerStep(r, "finalize") /\ req'[r].e \in ElectionIds
              /\ session[req'[r].e].exists) =>
              LET e == req'[r].e
                  enough == Len(PartialsOf(e)) >= session[e].required_trustees
              IN  /\ ~enough =>
                         /\ req'[r].pc = "done"
                         /\ req'[r].code = 400
                         /\ req'[r].detail \in
                                {"Insufficient trustees",
                                 "Insufficient verified partial decryptions"}
                         /\ UNCHANGED dbvars
                  /\ (enough /\ req[r].pc = "idle"
                        /\ session[e].completed_trustees >= session[e].required_trustees)
                        => req'[r].pc = "f2"
                  /\ (enough /\ req[r].pc = "f2") => req'[r].pc = "f3"
                  /\ (enough /\ req[r].pc = "f3" /\ ~results[e].exists) =>
                         /\ req'[r].code = 200
                         /\ results'[e].exists
                         /\ session'[e].status = "completed"]_vars

\* C8 witness: finalize_tally was refused for insufficient trustees on a
\* Decrypting session one accepted partial decryption short of the threshold.
C8_InsufficientSeen ==
    \E r \in Reqs :
        /\ Finished(r, "finalize")
        /\ req[r].detail = "Insufficient trustees"
        /\ session[req[r].e].exists
        /\ session[req[r].e].status = "decrypting"
        /\ session[req[r].e].completed_trustees + 1 = session[req[r].e].required_trustees
        /\ ~results[req[r].e].exists

\* C9: a finalize_tally that begins on a session whose status is not
\* Decrypting is rejected on the spot, whatever completed_trustees is: it
\* goes on to no decryption and to no insert of a result.
C9_FinalizeOnlyWhenDecrypting ==
    [][\A r \in Reqs :
          (Begins(r, "finalize") /\ req'[r].e \in ElectionIds
              /\ session[req'[r].e].exists
              /\ session[req'[r].e].status # "decrypting") =>
              /\ req'[r].pc = "done"
              /\ req'[r].code = 400
              /\ UNCHANGED dbvars]_vars

\* C10: a partial_decrypt that begins on a session whose status is neither
\* Aggregating nor Decrypting fails with "Cannot decrypt in status": no
\* PartialDecryption is inserted, completed_trustees is unchanged and no
\* audit entry is written.
C10_PartialOnlyWhenOpen ==
    [][\A r \in Reqs :
          (Begins(r, "partial") /\ req'[r].e \in ElectionIds
              /\ session[req'[r].e].exists
              /\ session[req'[r].e].status \notin {"aggregating", "decrypting"}) =>
              /\ req'[r].pc = "done"
              /\ req'[r].code = 400
              /\ req'[r].detail = "Cannot decrypt in status"
              /\ partials' = partials
              /\ session' = session
              /\ audit' = audit]_vars

\* C10 witness: a partial_decrypt on a Completed session was refused.
C10_RefusedAfterCompletion ==
    \E r \in Reqs :
        /\ Finished(r, "partial")
        /\ req[r].detail = "Cannot decrypt in status"
        /\ session[req[r].e].status = "completed"
        /\ ~RecordedFor(req[r].e, req[r].t)
\* C11: once finalize_tally has committed and the session is Completed, the
\* PartialDecryption records and completed_trustees of that election never
\* change again, whichever request commits afterwards.
C11_FrozenAfterFinalize ==
    [][\A e \in ElectionIds :
          (session[e].exists /\ session[e].status = "completed") =>
              /\ partials' = partials
              /\ session'[e].exists
              /\ session'[e].completed_trustees = session[e].completed_trustees]_vars
\* The plaintext ballots stored for election e that chose candidate j.
BallotsFor(e, j) ==
    Cardinality({i \in DOMAIN votes[e] : votes[e][i].encrypted_vote.vals[j] = 1})
DistinctNames(candidates) ==
    \A i, j \in DOMAIN candidates : candidates[i] = candidates[j] => i = j

RECURSIVE SumOver(_, _)
SumOver(f, S) ==
    IF S = {} THEN 0
    ELSE LET x == CHOOSE y \in S : TRUE IN f[x] + SumOver(f, S \ {x})
\* The total_votes start_tallying reported for election e in its audit entry.
AggregatedBallots(e) ==
    LET i == CHOOSE j \in DOMAIN audit :
                 audit[j].election_id = e /\ audit[j].operation_type = "start_tally"
    IN  audit[i].details.total_votes

\* C13: for every persisted ElectionResult the counts of final_tally sum to
\* total_votes_tallied, and both equal the number of ballots start_tallying
\* aggregated, whatever the candidate list is (repeated names included).
C13_TallySumsToTotal ==
    \A e \in ElectionIds :
        results[e].exists =>
            /\ SumOver(results[e].final_tally, DOMAIN results[e].final_tally)
                   = results[e].total_votes_tallied
            /\ results[e].total_votes_tallied = AggregatedBallots(e)
\* C14: verify_results on a result finalize_tally stored, and nothing has
\* modified since, answers is_valid = true, whatever the row's creation
\* timestamp is and however much later it is asked.
C14_VerifyAcceptsStoredResult ==
    \A r \in Reqs :
        (Finished(r, "verify") /\ req[r].code = 200) => req[r].body.is_valid
\* A stored tally is consistent with n aggregated ballots: every count lies
\* in 0..n and the decrypted counts add up to n.
ConsistentResult(result, n) ==
    /\ \A name \in DOMAIN result.final_tally : result.final_tally[name] \in 0..n
    /\ result.total_votes_tallied = n

C16_FailureMarksSession ==
    [][\A r \in Reqs :
          (StepBy(r) /\ req'[r].pc = "done" /\ req[r].pc \in {"s2", "f2"}
              /\ req'[r].detail \in {"Aggregation failed", "Finalization failed"}) =>
              /\ session'[req[r].e].exists
              /\ session'[req[r].e].status = "failed"
              /\ Len(audit') = Len(audit) + 1
              /\ audit'[Len(audit')].status = "failure"]_vars
\* C17: in every committed state the audit log matches the mutations one to
\* one: as many partial_decrypt entries as PartialDecryption records of the
\* election, one start_tally entry exactly when its session exists, one
\* finalize_tally entry exactly when its ElectionResult exists, and every
\* entry of status success.
C17_AuditMatchesMutations ==
    /\ \A e \in ElectionIds :
          /\ AuditCount(e, "partial_decrypt") = Len(PartialsOf(e))
          /\ AuditCount(e, "start_tally") = IF session[e].exists THEN 1 ELSE 0
          /\ AuditCount(e, "finalize_tally") = IF results[e].exists THEN 1 ELSE 0
    /\ \A i \in DOMAIN audit :
          /\ audit[i].status = "success"
          /\ audit[i].operation_type \in
                 {"start_tally", "partial_decrypt", "finalize_tally"}

\* C17 witness: a finalized election with more records than trustees were
\* required, each record with its audit entry.
C17_EveryRecordAudited ==
    \E e \in ElectionIds :
        /\ results[e].exists
        /\ Len(PartialsOf(e)) > session[e].required_trustees
        /\ AuditCount(e, "partial_decrypt") = Len(PartialsOf(e))
        /\ AuditCount(e, "finalize_tally") = 1
\* C18: the audit log is append-only: every entry once committed is still
\* present, with unchanged content, after any operation of the service.
C18_AuditAppendOnly ==
    [][/\ Len(audit') >= Len(audit)
       /\ \A i \in DOMAIN audit : audit'[i] = audit[i]]_vars
\* C19: partial_decrypt for a trustee that does not exist, has no key share
\* or is not Active is rejected at the trustee lookup: no PartialDecryption
\* is persisted and the counter is unchanged; so for a trustee that
\* delete_trustee has marked inactive.
C19_OnlyActiveTrustees ==
    [][\A r \in Reqs :
          (req[r].pc = "p2" /\ StepBy(r)
              /\ (\/ req[r].t \notin TrusteeRows
                  \/ trustee[req[r].t].key_share_encrypted = NoShare
                  \/ trustee[req[r].t].status # "active")) =>
              /\ req'[r].pc = "done"
              /\ req'[r].code = 400
              /\ UNCHANGED dbvars]_vars
\* C20: start_tallying on an election with zero untallied ballots fails with
\* "No votes to tally" (or, when a session already exists, with the session
\* lookup's error): no session is created, the election status is not
\* changed to tallying and no audit entry is written.
C20_NoVotesNoSession ==
    [][\A r \in Reqs :
          (req[r].pc = "s2" /\ StepBy(r) /\ Untallied(votes[req[r].e]) = <<>>) =>
              /\ req'[r].pc = "done"
              /\ req'[r].code = 400
              /\ ~session[req[r].e].exists => req'[r].detail = "No votes to tally"
              /\ session' = session
              /\ election' = election
              /\ audit' = audit]_vars

\* C20 witness: start_tallying was refused for want of ballots; the election
\* is still active, has no session and no audit entry.
C20_NoVotesSeen ==
    \E r \in Reqs :
        /\ Finished(r, "start")
        /\ req[r].detail = "No votes to tally"
        /\ votes[req[r].e] = <<>>
        /\ ~session[req[r].e].exists
        /\ election[req[r].e].status = "active"
        /\ audit = <<>>
\* The trustees of the PartialDecryption records of election e, in the order
\* their partial_decrypt calls committed.
TrusteeOrder(e) == [i \in DOMAIN PartialsOf(e) |-> PartialsOf(e)[i].trustee_id]

\* C21: whatever order the partial_decrypt calls of the required_trustees
\* trustees were applied in, finalize_tally stores the same final_tally and
\* total: the ones the session's aggregate alone determines.
C21_OrderIndependent ==
    \A e \in ElectionIds :
        results[e].exists =>
            LET counts == session[e].aggregated_ciphertext.vals
            IN  /\ results[e].final_tally = FinalTally(election[e].candidates, counts)
                /\ results[e].total_votes_tallied =
                       TotalVotes(counts, Len(election[e].candidates))

\* C21 witness: a result stored after the trustees decrypted in the order
\* t3, t1, t2, with a ballot counted.
C21_ReversedOrderResult ==
    \E e \in ElectionIds :
        /\ results[e].exists
        /\ TrusteeOrder(e) = <<"t3", "t1", "t2">>
        /\ results[e].total_votes_tallied > 0
\* C22: a PartialDecryption record of an election exists only while the
\* election has a tallying session, and a partial_decrypt that begins on an
\* election without a session is rejected with "Tallying session not found"
\* and persists nothing.
C22_SessionBeforePartial ==
    /\ [](\A e \in ElectionIds : PartialsOf(e) # <<>> => session[e].exists)
    /\ [][\A r \in Reqs :
            (Begins(r, "partial") /\ req'[r].e \in ElectionIds
                /\ ~session[req'[r].e].exists) =>
                /\ req'[r].pc = "done"
                /\ req'[r].code = 400
                /\ req'[r].detail = "Tallying session not found"
                /\ UNCHANGED dbvars]_vars

\* C22 witness: a partial_decrypt sent before any start_tallying was answered
\* "Tallying session not found" and no record exists.
C22_PartialBeforeStartSeen ==
    \E r \in Reqs :
        /\ Finished(r, "partial")
        /\ req[r].e \in ElectionIds
        /\ req[r].t \in ShareHolders
        /\ req[r].detail = "Tallying session not found"
        /\ ~session[req[r].e].exists
        /\ partials = <<>>
\* C23: an election never has more than one tallying session or more than
\* one start_tally audit entry, and of the start_tallying requests that reach
\* their commit for one election, two that both passed the existence check
\* included, exactly the first commits: it creates the session with its
\* audit entry and is answered 200, every later one fails on the unique
\* constraint and changes nothing.
C23_OneSessionPerElection ==
    /\ [](\A e \in ElectionIds : AuditCount(e, "start_tally") <= 1)
    /\ [][\A r \in Reqs :
            (req[r].pc = "s3" /\ StepBy(r)) =>
                LET e == req[r].e
                IN  /\ req'[r].pc = "done"
                    /\ session'[e].exists
                    /\ AuditCount(e, "start_tally")' = 1
                    /\ IF session[e].exists
                       THEN req'[r].code = 500 /\ UNCHANGED dbvars
                       ELSE /\ req'[r].code = 200
                            /\ session'[e].session_id = req'[r].body.session_id]_vars

\* C23 witness: of two start_tallying requests that had both passed the
\* existence check, the second to commit was refused by the unique
\* constraint; one session and one start audit entry exist.
C23_SecondCommitRefused ==
    \E r \in Reqs :
        /\ Finished(r, "start")
        /\ req[r].detail = "IntegrityError"
        /\ session[req[r].e].exists
        /\ AuditCount(req[r].e, "start_tally") = 1
\* The shares of a list have pairwise different x coordinates.
DistinctPoints(supplied) ==
    \A i, j \in DOMAIN supplied :
        supplied[i].share_data.x = supplied[j].share_data.x => i = j

\* C24: for every value of the secret's SHA-256 hash, values not below the
\* field prime included, reconstruct_secret on any threshold distinct shares
\* of the total_trustees that split_secret produced returns the encoding of
\* that hash.
C24_ShamirRoundTrip ==
    \A r \in Reqs :
        (Finished(r, "reconstruct")
            /\ Len(req[r].supplied) = Threshold
            /\ DistinctPoints(req[r].supplied)) =>
            /\ req[r].body.ok
            /\ req[r].body.secret_hash = Encode32(req[r].secret_int)

\* C25: reconstruct_secret fails whenever two of the shares it is handed have
\* the same x coordinate; it returns no value then.
C25_DuplicatePointFails ==
    \A r \in Reqs :
        (Finished(r, "reconstruct") /\ ~DistinctPoints(req[r].supplied)) =>
            ~req[r].body.ok

\* C26: reconstruct_secret fails with "Insufficient shares" on every list of
\* fewer than threshold shares and returns no secret.
C26_TooFewSharesFail ==
    \A r \in Reqs :
        (Finished(r, "reconstruct") /\ Len(req[r].supplied) < Threshold) =>
            /\ ~req[r].body.ok
            /\ req[r].body.raised = "Insufficient shares"

\* C26 witness: reconstruct_secret refused threshold - 1 distinct shares of a
\* split.
C26_OneShareShort ==
    \E r \in Reqs :
        /\ Finished(r, "reconstruct")
        /\ Len(req[r].supplied) = Threshold - 1
        /\ DistinctPoints(req[r].supplied)
        /\ ~req[r].body.ok

\* C27: verify_share answers true exactly for the shares whose x lies in
\* [1, total_trustees], whose y lies in [0, prime) and whose threshold and
\* total_trustees are the configured ones, whatever their share_id field is.
C27_VerifyShareChecksPoint ==
    \A r \in Reqs :
        Finished(r, "verify_share") =>
            LET share_data == req[r].share.share_data
            IN  req[r].body =
                   (/\ share_data.x \in 1..TotalTrustees
                    /\ share_data.y \in 0..(Prime - 1)
                    /\ share_data.threshold = Threshold
                    /\ share_data.total_trustees = TotalTrustees)

\* C29: encrypt_vote fails and produces no ciphertext whenever candidate_id
\* is below 1 or above num_candidates; it never encodes a vote for another
\* candidate instead.
C29_OutOfRangeRejected ==
    \A r \in Reqs :
        (Finished(r, "encrypt_vote")
            /\ req[r].candidate_id \notin 1..req[r].num_candidates) =>
            ~req[r].body.ok
\* The trustees that hold a key share.
Holders == {t \in TrusteeRows : trustee[t].key_share_encrypted # NoShare}

\* C28: issuing key shares is idempotent: a trustee that holds a share keeps
\* its share and its public key through every further issuance, by
\* generate_key_share or by setup_test_trustees; and the shares held have
\* pairwise distinct indices in [1, total_trustees] and belong to one key.
C28_IssuanceIdempotent ==
    /\ [][\A t \in TrusteeRows :
            trustee[t].key_share_encrypted # NoShare =>
                /\ trustee'[t].key_share_encrypted = trustee[t].key_share_encrypted
                /\ trustee'[t].public_key = trustee[t].public_key]_vars
    /\ [](\A t, u \in Holders :
            /\ trustee[t].key_share_encrypted.x \in 1..TotalTrustees
            /\ trustee[t].public_key = trustee[u].public_key
            /\ trustee[t].key_share_encrypted.x = trustee[u].key_share_encrypted.x
                  => t = u)
\* C30: once finalize_tally has stored the result, every ballot of the
\* session's aggregate has is_tallied = TRUE, and a ballot that is tallied
\* is never removed, changed or flagged untallied again by any operation.
C30_TalliedBallotsKept ==
    /\ [](\A e \in ElectionIds :
            results[e].exists =>
                \A i \in 1..AggregatedBallots(e) :
                    i \in DOMAIN votes[e] /\ votes[e][i].is_tallied)
    /\ [][\A e \in ElectionIds :
            \A i \in DOMAIN votes[e] :
                votes[e][i].is_tallied =>
                    i \in DOMAIN votes'[e] /\ votes'[e][i] = votes[e][i]]_vars
\* C31: the aggregated ciphertext and required_trustees that start_tallying
\* wrote into the session are left as they are by every step of every later
\* partial_decrypt and finalize_tally, successful or rejected.
C31_AggregateWrittenOnce ==
    [][\A e \in ElectionIds :
          (session[e].exists /\ session'[e].exists) =>
              /\ session'[e].aggregated_ciphertext = session[e].aggregated_ciphertext
              /\ session'[e].required_trustees = session[e].required_trustees]_vars

\* C31 witness: after the partial decryptions and a successful finalize_tally
\* the session still has the aggregate of the ballots and the threshold that
\* start_tallying stored.
C31_AggregateKeptToCompletion ==
    \E e \in ElectionIds :
        /\ results[e].exists
        /\ session[e].status = "completed"
        /\ Len(PartialsOf(e)) >= Threshold
        /\ session[e].required_trustees = Threshold
        /\ session[e].aggregated_ciphertext =
               aggregate_votes(KeyOf(e), Ciphertexts(votes[e])).ct
\* C32: whatever key-generating or key-loading operation ran since the
\* election's last partial_decrypt, the combination step of finalize_tally
\* on a session with enough partial decryptions decrypts the session's
\* aggregate with the election's own private key and goes on to store the
\* tally of that aggregate.
C32_FinalizeUsesOwnKey ==
    [][\A r \in Reqs :
          (req[r].pc = "f2" /\ StepBy(r)
              /\ Len(VerifiedPartials(req[r].e)) >= req[r].session.required_trustees
              /\ req[r].session.aggregated_ciphertext.key = KeyOf(req[r].e)) =>
              /\ req'[r].pc = "f3"
              /\ req'[r].final_tally =
                     FinalTally(election[req[r].e].candidates,
                                req[r].session.aggregated_ciphertext.vals)]_vars

\* C33: whichever key the shared encryption service holds, or none, the
\* aggregation step of start_tallying on an election with untallied ballots
\* and no session yields the elementwise sum of the ballots under the
\* election's own public key.
C33_AggregateUnderOwnKey ==
    [][\A r \in Reqs :
          (req[r].pc = "s2" /\ StepBy(r)
              /\ ~session[req[r].e].exists
              /\ Untallied(votes[req[r].e]) # <<>>) =>
              /\ req'[r].pc = "s3"
              /\ req'[r].aggregated_ciphertext =
                     aggregate_votes(KeyOf(req[r].e),
                                     Ciphertexts(Untallied(votes[req[r].e]))).ct]_vars
\* C34: every ballot whose is_tallied flag is set was part of the aggregate
\* start_tallying computed: a ballot stored after start_tallying and before
\* finalize_tally is not flagged by finalize_tally.
C34_OnlyAggregatedTallied ==
    \A e \in ElectionIds :
        \A i \in DOMAIN votes[e] :
            votes[e][i].is_tallied =>
                /\ session[e].exists
                /\ i <= AggregatedBallots(e)
\* C35: in every committed state an election's session is Completed exactly
\* when its ElectionResult exists and exactly when the election's status is
\* completed, overlapping finalize_tally requests included (the result table
\* holds one row per election at most).
C35_CompletedIffResult ==
    \A e \in ElectionIds :
        /\ (session[e].exists /\ session[e].status = "completed") <=> results[e].exists
        /\ results[e].exists <=> election[e].status = "completed"

\* C36: in every committed state the session's status and counter agree:
\* Aggregating with completed_trustees = 0 and no partial decryption stored,
\* Decrypting with completed_trustees >= 1, Completed with completed_trustees
\* >= required_trustees and at least required_trustees verified partial
\* decryptions.
C36_StatusMatchesCounter ==
    \A e \in ElectionIds :
        session[e].exists =>
            /\ session[e].status = "aggregating" =>
                  session[e].completed_trustees = 0 /\ PartialsOf(e) = <<>>
            /\ session[e].status = "decrypting" =>
                  session[e].completed_trustees >= 1
            /\ session[e].status = "completed" =>
                  /\ session[e].completed_trustees >= session[e].required_trustees
                  /\ Len(VerifiedPartials(e)) >= session[e].required_trustees

\* C37: a start_tallying, partial_decrypt or finalize_tally call that is
\* rejected or raises changes no persisted state: every step of a request
\* other than the step that ends it with status 200 leaves sessions, partial
\* decryptions, results, ballots, elections, trustees and audit entries as
\* they were.
C37_FailedCallsChangeNothing ==
    [][\A r \in Reqs :
          (StepBy(r) /\ ~(req'[r].pc = "done" /\ req'[r].code = 200)) =>
              UNCHANGED dbvars]_vars

\* C37 witness: a finalize_tally request has failed at its commit on the
\* unique constraint, and the election still has the one result and the one
\* finalize_tally audit entry of the request that committed before it.
C37_FailedCommitRolledBack ==
    \E r \in Reqs :
        /\ Finished(r, "finalize")
        /\ req[r].code = 500
        /\ req[r].detail = "IntegrityError"
        /\ results[req[r].e].exists
        /\ AuditCount(req[r].e, "finalize_tally") = 1

ElectionRank(status) ==
    CASE status = "tallying" -> 1
      [] status = "completed" -> 2
      [] OTHER -> 0

\* C38: start_tallying goes past its status check only for an election whose
\* status is active or ended, and its commit sets the status to tallying;
\* no step of start_tallying, partial_decrypt or finalize_tally moves the
\* status backwards in the order active/ended < tallying < completed, and
\* finalize_tally's commit sets it to completed; at most one start_tallying
\* ever commits for an election.
C38_ElectionStatusForward ==
    /\ [](\A e \in ElectionIds : AuditCount(e, "start_tally") <= 1)
    /\ [][\A e \in ElectionIds :
             /\ ElectionRank(election'[e].status) >= ElectionRank(election[e].status)
             /\ ElectionRank(election[e].status) > 0 =>
                   election'[e].status \in {"tallying", "completed"}]_vars
    /\ [][\A r \in Reqs :
             /\ (Begins(r, "start") /\ req'[r].pc = "s2") =>
                   election[req'[r].e].status \in {"active", "ended"}
             /\ (req[r].pc = "s3" /\ StepBy(r) /\ req'[r].code = 200) =>
                   /\ election[req[r].e].status \in {"active", "ended"}
                   /\ election'[req[r].e].status = "tallying"
             /\ (req[r].pc = "f3" /\ StepBy(r) /\ req'[r].code = 200) =>
                   election'[req[r].e].status = "completed"]_vars

\* C38 witness: a start_tallying request was refused on the status of an
\* election whose one tally had started and finished (status completed).
C38_CompletedNotRestarted ==
    \E r \in Reqs :
        /\ Finished(r, "start")
        /\ req[r].code = 400
        /\ req[r].detail = "Cannot tally election with status"
        /\ election[req[r].e].status = "completed"
        /\ results[req[r].e].exists
        /\ \E i \in DOMAIN audit :
              /\ audit[i].operation_type = "start_tally"
              /\ audit[i].election_id = req[r].e

ReadyToTally(e) ==
    /\ election[e].status = "active"
    /\ Untallied(votes[e]) # <<>>
    /\ election[e].encryption_params # NoKey
    /\ Cardinality({t \in TrusteeRows : trustee[t].key_share_encrypted # NoShare})
           >= Threshold

TallyCompleted(e) ==
    /\ session[e].exists
    /\ session[e].status = "completed"
    /\ results[e].exists

\* C39: an active election with an untallied ballot, a key pair and at least
\* required_trustees share-holding trustees eventually has a Completed
\* session and a stored result, when start_tallying, partial_decrypt by each
\* of those trustees and finalize_tally keep being served; and a Completed
\* session stays Completed.
C39_TallyEventuallyCompletes ==
    /\ \A e \in ElectionIds : ReadyToTally(e) ~> TallyCompleted(e)
    /\ [][\A e \in ElectionIds : TallyCompleted(e) => TallyCompleted(e)']_vars
====
